---- MODULE Spec2Model ----
(***************************************************************************)
(* Safe mutation pipeline of the SEO checker backend:                      *)
(*   - the rate limiter (services/rate_limiter.py),                        *)
(*   - the circuit breaker (services/circuit_breaker.py),                  *)
(*   - the approval workflow with sandbox, backup and rollback             *)
(*     (routers/patches.py, services/patch_sandbox.py, patch_engine.py),   *)
(*   - the issue deduplicator (services/deduplicator.py),                  *)
(*   - the chunker (services/chunker.py).                                  *)
(* Each component has its own specification (SpecGate, SpecBreaker,        *)
(* SpecPatch, SpecDedup, SpecChunk) over one set of variables; a           *)
(* specification leaves the variables of the other components at their     *)
(* initial values.                                                         *)
(***************************************************************************)
EXTENDS Integers, Sequences, FiniteSets, TLC

VARIABLES
    \* rate limiter (GeminiRateLimiter.__init__)
    semValue,          \* asyncio.Semaphore: free slots
    semWaiters,        \* asyncio.Semaphore: queue of suspended acquirers
    orphans,           \* generate_content calls still running in a thread after wait_for gave up
    active_requests,
    total_requests,
    queue_size,
    task,              \* per task: position, permits held, kind
    \* circuit breaker (CircuitBreaker.__init__)
    failures,
    tripped,
    lastCall,          \* the most recent breaker call: <<operation, key, result>>
    streak,            \* record_failure(k) calls in a row on key k
    \* approval workflow (routers/patches.py) and what it works on
    fs,                \* the file system: path -> content, for the files that exist
    now,               \* datetime.now(), in seconds
    issues,            \* table issues: id -> status, backup_path
    history,           \* table patch_history, in insertion order
    req,               \* the approve_issues requests in progress
    commits,           \* sandbox commits so far
    rollback_response, \* what the latest step answered, when it was a rollback request
    engine,            \* one call of the patch engine or the sandbox: arguments and result
    \* deduplicator (POST /deduplication/{job_id}/deduplicate)
    issues_dict,       \* the list handed to deduplicate_issues
    deduplicated,      \* the list it returns
    dedup_pc,
    \* chunker (Chunker.chunk_file)
    chunker,           \* the Chunker object: chunk_size, overlap, context_lines
    chunk_lines,       \* content.splitlines()
    chunk_start,       \* local start (counted from 0)
    chunks,            \* local chunks
    chunk_pc

gateVars == <<semValue, semWaiters, orphans, active_requests, total_requests, queue_size, task>>
breakerVars == <<failures, tripped, lastCall, streak>>
patchVars == <<fs, now, issues, history, req, commits, rollback_response>>
dedupVars == <<issues_dict, deduplicated, dedup_pc>>
chunkVars == <<chunker, chunk_lines, chunk_start, chunks, chunk_pc>>
engineVars == <<engine>>
vars == <<gateVars, breakerVars, patchVars, dedupVars, chunkVars, engineVars>>

Min(a, b) == IF a < b THEN a ELSE b
Max(a, b) == IF a > b THEN a ELSE b

(***************************************************************************)
(* Rate limiter                                                            *)
(***************************************************************************)
MAX_CONCURRENT_REQUESTS == 3

\* Bounds of the gate model
NTasks == 4
MaxRequests == 6
MaxOrphans == 1

Tasks == 1..NTasks
\* analyze_chunk_task enters `async with rate_limiter` and then calls
\* analyze_chunk, which enters it again; generate_content enters it once.
\* analyze_chunk is retried (tenacity) after a wait when its call raised: a
\* task of this kind that holds one permit and is ready is before an attempt
\* of analyze_chunk, the outer permit held across the waits.
TaskKinds == {"analyze_chunk_task", "generate_content"}
Depth(kind) == IF kind = "analyze_chunk_task" THEN 2 ELSE 1

GateInit ==
    /\ semValue = MAX_CONCURRENT_REQUESTS
    /\ semWaiters = <<>>
    /\ orphans = 0
    /\ active_requests = 0
    /\ total_requests = 0
    /\ queue_size = 0
    /\ task \in [Tasks -> [pc : {"ready"}, held : {0}, kind : TaskKinds]]

\* asyncio.Semaphore (CPython 3.11): _waiters holds the futures of the callers
\* suspended in acquire(), in the order they called; a future stays there,
\* done, from the release that wakes it until its caller runs again.
Pending(waiters) == {i \in 1..Len(waiters) : task[waiters[i]].pc = "waiting"}

locked_value_only(value, waiters) == value = 0

\* Semaphore.locked(): no slot free, or some caller still queued (no future is
\* ever cancelled here).
locked(value, waiters) == value = 0 \/ waiters /= <<>>

\* Semaphore._wake_up_next(): the first future that is not done takes a slot
\* and is set done; [value, woken] with woken the set of callers woken.
wake_up_next(value, waiters) ==
    IF Pending(waiters) = {}
      THEN [value |-> value, woken |-> {}]
      ELSE LET i == CHOOSE x \in Pending(waiters) : \A y \in Pending(waiters) : x <= y
           IN [value |-> value - 1, woken |-> {waiters[i]}]

\* The bookkeeping of acquire() after `await self.semaphore.acquire()` returned.
Admit(t) ==
    /\ semValue' = semValue - 1
    /\ queue_size' = (queue_size + 1) - 1
    /\ active_requests' = active_requests + 1
    /\ total_requests' = total_requests + 1
    /\ task' = [task EXCEPT ![t].pc = "ready", ![t].held = @ + 1]

acquire_nowait(t) ==
    /\ task[t].pc = "ready"
    /\ task[t].held < Depth(task[t].kind)
    /\ total_requests < MaxRequests
    /\ Admit(t)
    /\ UNCHANGED semWaiters

\* acquire(): queue_size += 1, then the semaphore: when it is not locked the
\* slot is taken at once, otherwise the caller is queued and suspended.
acquire(t) ==
    /\ task[t].pc = "ready"
    /\ task[t].held < Depth(task[t].kind)
    /\ total_requests + Len(semWaiters) < MaxRequests
    /\ IF ~locked(semValue, semWaiters)
         THEN /\ Admit(t)
              /\ UNCHANGED semWaiters
         ELSE /\ queue_size' = queue_size + 1
              /\ semWaiters' = Append(semWaiters, t)
              /\ task' = [task EXCEPT ![t].pc = "waiting"]
              /\ UNCHANGED <<semValue, active_requests, total_requests>>

\* release(): active_requests -= 1, semaphore.release() frees a slot and
\* hands it to the first caller still waiting.
release(t) ==
    /\ task[t].pc = "ready"
    /\ task[t].held > 0
    /\ active_requests' = active_requests - 1
    /\ LET w == wake_up_next(semValue + 1, semWaiters) IN
       /\ semValue' = w.value
       /\ task' = [x \in Tasks |->
                     IF x \in w.woken THEN [task[x] EXCEPT !.pc = "woken"]
                     ELSE IF x = t THEN [task[x] EXCEPT !.held = @ - 1]
                     ELSE task[x]]
    /\ UNCHANGED <<semWaiters, total_requests, queue_size>>

\* The exits of the `async with rate_limiter` blocks: the call returned, it
\* raised (API error, invalid JSON), or wait_for timed it out.
ExitPaths == {"return", "exception", "timeout"}

aexit_return_only(t, exc_type) ==
    IF exc_type = "return"
      THEN release(t)
      ELSE /\ task[t].pc = "ready"
           /\ task[t].held > 0
           /\ task' = [task EXCEPT ![t].held = @ - 1]
           /\ UNCHANGED <<semValue, semWaiters, active_requests, total_requests, queue_size>>

\* __aexit__(exc_type, exc_val, exc_tb): release(), whatever ended the block.
aexit(t, exc_type) == release(t)

\* A woken caller runs again, the callers woken earlier first (the event loop
\* runs what it scheduled in order): its future leaves the queue, a slot that
\* is free goes to the next caller still waiting, then the bookkeeping.
resume(t) ==
    /\ task[t].pc = "woken"
    /\ \A i \in 1..Len(semWaiters) :
          task[semWaiters[i]].pc = "woken" => \E j \in 1..i : semWaiters[j] = t
    /\ LET rest == SelectSeq(semWaiters, LAMBDA x : x /= t)
           w == IF semValue > 0 THEN wake_up_next(semValue, rest)
                                ELSE [value |-> semValue, woken |-> {}]
       IN /\ semWaiters' = rest
          /\ semValue' = w.value
          /\ task' = [x \in Tasks |->
                        IF x \in w.woken THEN [task[x] EXCEPT !.pc = "woken"]
                        ELSE IF x = t THEN [task[x] EXCEPT !.pc = "ready", !.held = @ + 1]
                        ELSE task[x]]
    /\ queue_size' = queue_size - 1
    /\ active_requests' = active_requests + 1
    /\ total_requests' = total_requests + 1

RECURSIVE SumHeld(_)
SumHeld(S) ==
    IF S = {} THEN 0
    ELSE LET t == CHOOSE x \in S : TRUE IN task[t].held + SumHeld(S \ {t})

PermitsHeld == SumHeld(Tasks)

(***************************************************************************)
(* Circuit breaker                                                         *)
(***************************************************************************)
FAILURE_THRESHOLD == 5

\* Bound of the breaker model: calls stop counting past this value
MaxFailures == 7

Jobs == {"J1", "J2"}
NoCall == <<"none", "", FALSE>>

BreakerInit ==
    /\ failures = [k \in Jobs |-> 0]
    /\ tripped = [k \in Jobs |-> FALSE]
    /\ lastCall = NoCall
    /\ streak = [k \in Jobs |-> 0]

record_failure_all_keys(f, tr, k) ==
    LET n == f[k] + 1 IN
    [failures |-> [j \in DOMAIN f |-> f[j] + 1],
     tripped  |-> IF n >= FAILURE_THRESHOLD THEN [tr EXCEPT ![k] = TRUE] ELSE tr,
     ret      |-> n >= FAILURE_THRESHOLD]

record_failure_above(f, tr, k) ==
    LET n == f[k] + 1 IN
    [failures |-> [f EXCEPT ![k] = n],
     tripped  |-> IF n > FAILURE_THRESHOLD THEN [tr EXCEPT ![k] = TRUE] ELSE tr,
     ret      |-> n > FAILURE_THRESHOLD]

\* The state of the breaker after record_failure(k) and the value it returns.
record_failure(f, tr, k) ==
    LET n == f[k] + 1 IN
    [failures |-> [f EXCEPT ![k] = n],
     tripped  |-> IF n >= FAILURE_THRESHOLD THEN [tr EXCEPT ![k] = TRUE] ELSE tr,
     ret      |-> n >= FAILURE_THRESHOLD]

record_success_rearm(f, tr, k) ==
    [failures |-> [f EXCEPT ![k] = 0], tripped |-> [tr EXCEPT ![k] = FALSE]]

\* record_success(k): the counter goes back to 0, the trip flag is not touched.
record_success(f, tr, k) ==
    [failures |-> IF f[k] > 0 THEN [f EXCEPT ![k] = 0] ELSE f, tripped |-> tr]

is_tripped_never(tr, k) == FALSE

is_tripped(tr, k) == tr[k]

reset(f, tr, k) ==
    [failures |-> [f EXCEPT ![k] = 0], tripped |-> [tr EXCEPT ![k] = FALSE]]

\* The calls of the breaker's interface, made by any caller in any order.
CallRecordFailure(k) ==
    /\ failures[k] < MaxFailures
    /\ LET r == record_failure(failures, tripped, k) IN
         /\ failures' = r.failures
         /\ tripped' = r.tripped
         /\ lastCall' = <<"record_failure", k, r.ret>>
    /\ streak' = [streak EXCEPT ![k] = Min(@ + 1, FAILURE_THRESHOLD)]

CallRecordSuccess(k) ==
    /\ LET r == record_success(failures, tripped, k) IN
         /\ failures' = r.failures
         /\ tripped' = r.tripped
    /\ lastCall' = <<"record_success", k, FALSE>>
    /\ streak' = [streak EXCEPT ![k] = 0]

CallIsTripped(k) ==
    /\ lastCall' = <<"is_tripped", k, is_tripped(tripped, k)>>
    /\ UNCHANGED <<failures, tripped, streak>>

CallReset(k) ==
    /\ LET r == reset(failures, tripped, k) IN
         /\ failures' = r.failures
         /\ tripped' = r.tripped
    /\ lastCall' = <<"reset", k, FALSE>>
    /\ streak' = [streak EXCEPT ![k] = 0]

(***************************************************************************)
(* File contents and the patch engine (services/patch_engine.py)           *)
(*                                                                         *)
(* A content is a sequence of characters; NL is the line break. A markup   *)
(* tag stands as one element of the sequence.                              *)
(***************************************************************************)
NL == "\n"
Whitespace == {" ", NL}

RECURSIVE SplitAcc(_, _, _, _)
SplitAcc(c, i, cur, acc) ==
    IF i > Len(c) THEN (IF cur = <<>> THEN acc ELSE Append(acc, cur))
    ELSE IF c[i] = NL THEN SplitAcc(c, i + 1, <<>>, Append(acc, Append(cur, NL)))
    ELSE SplitAcc(c, i + 1, Append(cur, c[i]), acc)

\* str.splitlines(keepends=True)
splitlines_keepends(c) == SplitAcc(c, 1, <<>>, <<>>)

RECURSIVE Join(_)
\* ''.join(lines)
Join(lines) == IF lines = <<>> THEN <<>> ELSE Head(lines) \o Join(Tail(lines))

RECURSIVE lstrip(_)
\* str.lstrip()
lstrip(s) == IF s /= <<>> /\ Head(s) \in Whitespace THEN lstrip(Tail(s)) ELSE s

Spaces(n) == [i \in 1..n |-> " "]

\* list.insert(i, x): i counts from 0, past the end appends, negative counts
\* from the end.
ListInsert(l, i, x) ==
    LET n == Len(l)
        j == IF i < 0 THEN Max(0, n + i) ELSE Min(i, n)
    IN SubSeq(l, 1, j) \o <<x>> \o SubSeq(l, j + 1, n)

Raised == [ok |-> FALSE, content |-> <<>>]
Patched(lines) == [ok |-> TRUE, content |-> Join(lines)]

\* _apply_dom_patch: the patched content, or the ValueError it raises.
apply_dom_patch(content, line_number, action, code) ==
    LET lines == splitlines_keepends(content) IN
    CASE action = "insert_after_line" ->
            IF line_number <= Len(lines)
              THEN Patched(ListInsert(lines, line_number, Append(code, NL)))
              ELSE Raised
      [] action = "replace_line" ->
            IF 0 < line_number /\ line_number <= Len(lines)
              THEN Patched([lines EXCEPT ![line_number] = Append(code, NL)])
              ELSE Raised
      [] action = "annotate" ->
            IF 0 < line_number /\ line_number <= Len(lines)
              THEN Patched(ListInsert(lines, line_number,
                                      <<"<!-- SEO NOTE: ">> \o code \o <<" -->", NL>>))
              ELSE Raised
      [] OTHER -> Patched(lines)

\* _apply_line_patch: as above, replace_line keeps the indentation.
apply_line_patch(content, line_number, action, code) ==
    LET lines == splitlines_keepends(content) IN
    CASE action = "insert_after_line" ->
            IF line_number <= Len(lines)
              THEN Patched(ListInsert(lines, line_number, Append(code, NL)))
              ELSE Raised
      [] action = "replace_line" ->
            IF 0 < line_number /\ line_number <= Len(lines)
              THEN LET original_line == lines[line_number]
                       indent == Len(original_line) - Len(lstrip(original_line))
                       indented_code == Spaces(indent) \o lstrip(code)
                   IN Patched([lines EXCEPT ![line_number] = Append(indented_code, NL)])
              ELSE Raised
      [] action = "annotate" ->
            IF 0 < line_number /\ line_number <= Len(lines)
              THEN Patched(ListInsert(lines, line_number,
                                      <<"// SEO NOTE: ">> \o code \o <<NL>>))
              ELSE Raised
      [] OTHER -> Patched(lines)

\* Paths. The stem is kept in parts, the timestamp of a backup apart (<<>> for
\* a path without one).
NoTs == <<>>
WorkPath(stem, suffix) == [dir |-> "workspace", stem |-> <<stem>>, ts |-> NoTs, suffix |-> suffix]

Exists(f, p) == p \in DOMAIN f
Write(f, p, c) == (p :> c) @@ f
Unlink(f, p) == [q \in DOMAIN f \ {p} |-> f[q]]

\* create_backup: <backup_dir>/<stem>_<timestamp><suffix>.bak, a copy of the file.
BackupPath(p, t) == [dir |-> "backups", stem |-> p.stem, ts |-> <<t>>, suffix |-> p.suffix]

create_backup_blank(f, p, t) ==
    [path |-> BackupPath(p, t), fs |-> Write(f, BackupPath(p, t), <<>>)]

NoPath == [dir |-> "none", stem |-> <<>>, ts |-> NoTs, suffix |-> ""]
NoCode == <<>>
create_backup(f, p, t) == [fs |-> Write(f, BackupPath(p, t), f[p]), path |-> BackupPath(p, t)]

rollback_unchecked(f, file_path, backup_path) ==
    [ok |-> TRUE, fs |-> IF Exists(f, backup_path) THEN Write(f, file_path, f[backup_path]) ELSE f]

\* rollback: copy the backup over the file; False when the copy raises
\* (shutil.copy2 opens the backup before it opens the file, so a backup that
\* is missing or cannot be read leaves the file as it was).
rollback(f, file_path, backup_path) ==
    IF Exists(f, backup_path)
      THEN [ok |-> TRUE, fs |-> Write(f, file_path, f[backup_path])]
      ELSE [ok |-> FALSE, fs |-> f]

DomTypes == {".php", ".html", ".htm"}

\* apply_patch(file_path, ...) with file_type None: backup, read, patch by
\* the strategy of the suffix, write; on an exception roll the file back.
apply_patch(f, file_path, line_number, action, code, t) ==
    LET b == create_backup(f, file_path, t)
        original_content == b.fs[file_path]
        r == IF file_path.suffix \in DomTypes
               THEN apply_dom_patch(original_content, line_number, action, code)
               ELSE apply_line_patch(original_content, line_number, action, code)
    IN IF r.ok
         THEN [success |-> TRUE, fs |-> Write(b.fs, file_path, r.content)]
         ELSE [success |-> FALSE, fs |-> rollback(b.fs, file_path, b.path).fs]

Count(c, x) == Cardinality({i \in 1..Len(c) : c[i] = x})

\* _validate_html: more than one head or body element is refused.
validate_html(c) == Count(c, "<head>") <= 1 /\ Count(c, "<body>") <= 1

\* validate_patch for the file types of the model (.html, .js and others).
validate_patch(f, file_path, file_type) ==
    IF file_type \in {".html", ".htm"} THEN validate_html(f[file_path]) ELSE TRUE

(***************************************************************************)
(* Sandbox (services/patch_sandbox.py)                                     *)
(***************************************************************************)
\* create_temp_copy: <sandbox_dir>/<stem>_temp_<id(self)><suffix>; the sandbox
\* is one object, so id(self) is one value.
TempPath(p) == [dir |-> "sandbox", stem |-> Append(p.stem, "temp"), ts |-> NoTs, suffix |-> p.suffix]
create_temp_copy(f, p) == Write(f, TempPath(p), f[p])

cleanup_temp(f, temp_path) == IF Exists(f, temp_path) THEN Unlink(f, temp_path) ELSE f

apply_and_validate_early_commit(f, original_path, line_number, action, code, t) ==
    LET temp_path == TempPath(original_path)
        f1 == create_temp_copy(f, original_path)
        p == apply_patch(f1, temp_path, line_number, action, code, t)
        f2 == Write(p.fs, original_path, p.fs[temp_path])
    IN IF ~Exists(f, original_path)
         THEN [success |-> FALSE, temp_path |-> NoPath, error |-> "exception", fs |-> f]
       ELSE IF ~p.success
         THEN [success |-> FALSE, temp_path |-> temp_path, error |-> "apply", fs |-> p.fs]
       ELSE IF ~validate_patch(f2, temp_path, original_path.suffix)
         THEN [success |-> FALSE, temp_path |-> temp_path, error |-> "validation", fs |-> f2]
       ELSE [success |-> TRUE, temp_path |-> temp_path, error |-> "none", fs |-> f2]

apply_and_validate_discard(f, original_path, line_number, action, code, t) ==
    LET temp_path == TempPath(original_path)
        f1 == create_temp_copy(f, original_path)
        p == apply_patch(f1, temp_path, line_number, action, code, t)
    IN IF ~Exists(f, original_path)
         THEN [success |-> FALSE, temp_path |-> NoPath, error |-> "exception", fs |-> f]
       ELSE IF ~p.success
         THEN [success |-> FALSE, temp_path |-> temp_path, error |-> "apply",
               fs |-> cleanup_temp(p.fs, temp_path)]
       ELSE IF ~validate_patch(p.fs, temp_path, temp_path.suffix)
         THEN [success |-> FALSE, temp_path |-> temp_path, error |-> "validation", fs |-> p.fs]
       ELSE [success |-> TRUE, temp_path |-> temp_path, error |-> "none",
             fs |-> Write(p.fs, original_path, p.fs[temp_path])]

apply_and_validate_unvalidated(f, original_path, line_number, action, code, t) ==
    LET temp_path == TempPath(original_path)
        f1 == create_temp_copy(f, original_path)
        p == apply_patch(f1, temp_path, line_number, action, code, t)
    IN IF ~Exists(f, original_path)
         THEN [success |-> FALSE, temp_path |-> NoPath, error |-> "exception", fs |-> f]
       ELSE IF ~p.success
         THEN [success |-> FALSE, temp_path |-> temp_path, error |-> "apply", fs |-> p.fs]
       ELSE [success |-> TRUE, temp_path |-> temp_path, error |-> "none",
             fs |-> Write(p.fs, original_path, p.fs[temp_path])]

\* apply_and_validate with the patch_func and validate_func approve_issues
\* passes: apply_patch on the temp copy, validate_patch on the temp copy by
\* the suffix of its path; the original is written last. create_temp_copy
\* raises when the original is missing: temp_path is still None then.
apply_and_validate(f, original_path, line_number, action, code, t) ==
    LET temp_path == TempPath(original_path)
        f1 == create_temp_copy(f, original_path)
        p == apply_patch(f1, temp_path, line_number, action, code, t)
    IN IF ~Exists(f, original_path)
         THEN [success |-> FALSE, temp_path |-> NoPath, error |-> "exception", fs |-> f]
       ELSE IF ~p.success
         THEN [success |-> FALSE, temp_path |-> temp_path, error |-> "apply", fs |-> p.fs]
       ELSE IF ~validate_patch(p.fs, temp_path, temp_path.suffix)
         THEN [success |-> FALSE, temp_path |-> temp_path, error |-> "validation", fs |-> p.fs]
       ELSE [success |-> TRUE, temp_path |-> temp_path, error |-> "none",
             fs |-> Write(p.fs, original_path, p.fs[temp_path])]

(***************************************************************************)
(* One call of the engine or of the sandbox, on arguments of every kind    *)
(***************************************************************************)
\* Bound of the line numbers of a call: -MaxLineNo..MaxLineNo
MaxLineNo == 3

\* The three actions of ActionType, and one that is none of them.
Actions == {"insert_after_line", "replace_line", "annotate", "delete_line"}
Contents == {<<>>, <<"<head>", NL, "<body>", NL>>, <<" ", "a", NL, "b">>, <<NL, "b", NL>>}
Codes == {<<"x">>, <<"<head>">>}

NoResult == [success |-> FALSE, temp_path |-> NoPath, error |-> "none", content |-> <<>>]
EngineIdle ==
    engine = [pc |-> "idle", file_path |-> NoPath, line_number |-> 0,
              action |-> "none", code |-> NoCode, present |-> FALSE, before |-> <<>>,
              ret |-> NoResult]

\* The arguments of the call: a .html or .js path, with the file there or
\* missing, a line number, an action and the code.
EngineInit ==
    \E file_path \in {WorkPath("index", ".html"), WorkPath("app", ".js")},
       present \in BOOLEAN, content \in Contents,
       line_number \in (0 - MaxLineNo)..MaxLineNo, action \in Actions, code \in Codes :
      /\ fs = IF present THEN <<>> @@ (file_path :> content) ELSE <<>>
      /\ (~present => content = <<>>)
      /\ engine = [pc |-> "ready", file_path |-> file_path, line_number |-> line_number,
                   action |-> action, code |-> code, present |-> present,
                   before |-> content, ret |-> NoResult]

\* _apply_dom_patch or _apply_line_patch, by the suffix as apply_patch picks
\* them, on the content of the file.
CallPatchStrategy ==
    /\ engine.pc = "ready"
    /\ Exists(fs, engine.file_path)
    /\ LET r == IF engine.file_path.suffix \in DomTypes
                  THEN apply_dom_patch(engine.before, engine.line_number, engine.action, engine.code)
                  ELSE apply_line_patch(engine.before, engine.line_number, engine.action, engine.code)
       IN engine' = [engine EXCEPT !.pc = "patched",
                                   !.ret = [NoResult EXCEPT !.success = r.ok, !.content = r.content]]
    /\ UNCHANGED <<fs, now, issues, history, req, commits, rollback_response>>

\* patch_sandbox.apply_and_validate(original_path, apply_patch_wrapper,
\* validate_wrapper) as approve_issues calls it.
CallApplyAndValidate ==
    /\ engine.pc = "ready"
    /\ LET r == apply_and_validate(fs, engine.file_path, engine.line_number,
                                   engine.action, engine.code, now)
       IN /\ fs' = r.fs
          /\ engine' = [engine EXCEPT !.pc = "sandboxed",
                                      !.ret = [NoResult EXCEPT !.success = r.success,
                                                               !.temp_path = r.temp_path,
                                                               !.error = r.error]]
    /\ UNCHANGED <<now, issues, history, req, commits, rollback_response>>

(***************************************************************************)
(* Approval workflow (routers/patches.py)                                  *)
(***************************************************************************)
\* Bounds of the workflow model
MaxCommits == 1
MaxClock == 0

IndexHtml == WorkPath("index", ".html")
AppJs == WorkPath("app", ".js")

\* The rows of table issues as the analysis stored them (models.Issue): the
\* columns approve_issues reads and never writes.
IssueTable ==
    [i1 |-> [job_id |-> "J1", file_path |-> IndexHtml, line_number |-> 1,
             action |-> "insert_after_line", code |-> <<"x">>],
     i2 |-> [job_id |-> "J1", file_path |-> IndexHtml, line_number |-> 2,
             action |-> "insert_after_line", code |-> <<"<head>">>],
     i3 |-> [job_id |-> "J1", file_path |-> IndexHtml, line_number |-> 9,
             action |-> "annotate", code |-> <<"n">>],
     i4 |-> [job_id |-> "J2", file_path |-> AppJs, line_number |-> 1,
             action |-> "replace_line", code |-> <<"z">>]]

IssueIds == DOMAIN IssueTable
MissingId == "i0"
EditedCodes == {NoCode}

Reqs == {"r1"}
IdleReq ==
    [pc |-> "idle", edited_code |-> NoCode, cur |-> MissingId,
     outcome |-> "none", sawTrip |-> FALSE, should_stop |-> FALSE,
     temp_path |-> NoPath, backup_path |-> NoPath,
     original_content |-> <<>>, patched_content |-> <<>>, pre |-> <<>>]

\* Back at the head of the loop: the locals of the pass are dead.
Continue(q, outcome) ==
    [IdleReq EXCEPT !.pc = "next", !.edited_code = q.edited_code,
                    !.cur = q.cur, !.outcome = outcome, !.sawTrip = q.sawTrip]

NoResponse == [issue_id |-> MissingId, status_code |-> 0, detail |-> "none"]
Response(id, status_code, detail) == [issue_id |-> id, status_code |-> status_code, detail |-> detail]

PatchInit ==
    /\ fs = (IndexHtml :> <<"<head>", NL, "<body>", NL>>) @@ (AppJs :> <<" ", "a", NL, "b">>)
    /\ now = 0
    /\ issues = [i \in IssueIds |-> [status |-> "pending", backup_path |-> NoPath]]
    /\ history = <<>>
    /\ req = [r \in Reqs |-> IdleReq]
    /\ commits = 0
    /\ rollback_response = NoResponse

\* POST /patches/approve arrives with a list of issue ids; the ids of the
\* list are drawn one by one as the loop reaches them.
StartApprove(r, edited) ==
    /\ req[r].pc = "idle"
    /\ req' = [req EXCEPT ![r] = [IdleReq EXCEPT !.pc = "next", !.edited_code = edited]]
    /\ UNCHANGED <<fs, now, issues, history, commits, failures, tripped>>

\* for issue_id in approval.issue_ids: the select of the issue is awaited.
NextId(r, id) ==
    /\ req[r].pc = "next"
    /\ req' = [req EXCEPT ![r].pc = "select", ![r].cur = id, ![r].outcome = "none"]
    /\ UNCHANGED <<fs, now, issues, history, commits, failures, tripped>>

\* One pass of the loop from the result of the select to the next await, at
\* second t of the clock (the time create_backup reads): not found, breaker
\* tripped, or the sandbox run with what follows it (backup and reads after
\* a commit, record_failure after a failure).
AttemptUpTo(r, t, max_commits) ==
    /\ req[r].pc = "select"
    /\ now' = t
    /\ LET id == req[r].cur IN
       IF id \notin IssueIds
         THEN /\ req' = [req EXCEPT ![r] = Continue(req[r], "not_found")]
              /\ UNCHANGED <<fs, issues, history, commits, failures, tripped>>
       ELSE IF is_tripped(tripped, IssueTable[id].job_id)
         THEN /\ req' = [req EXCEPT ![r] = [Continue(req[r], "circuit_breaker_tripped")
                                               EXCEPT !.sawTrip = TRUE]]
              /\ UNCHANGED <<fs, issues, history, commits, failures, tripped>>
       ELSE LET issue == IssueTable[id]
                code_to_apply == IF req[r].edited_code /= NoCode THEN req[r].edited_code ELSE issue.code
                s == apply_and_validate(fs, issue.file_path, issue.line_number,
                                        issue.action, code_to_apply, t)
            IN IF s.success
                 THEN LET b == create_backup(s.fs, issue.file_path, t) IN
                      /\ commits < max_commits
                      /\ commits' = commits + 1
                      /\ fs' = b.fs
                      /\ req' = [req EXCEPT ![r].outcome = "committed",
                                            ![r].pc = "txn_applied",
                                            ![r].temp_path = s.temp_path,
                                            ![r].backup_path = b.path,
                                            ![r].patched_content = b.fs[issue.file_path],
                                            ![r].original_content = b.fs[b.path],
                                            ![r].pre = fs[issue.file_path]]
                      /\ UNCHANGED <<issues, history, failures, tripped>>
                 ELSE LET f == record_failure(failures, tripped, issue.job_id) IN
                      /\ failures' = f.failures
                      /\ tripped' = f.tripped
                      /\ fs' = s.fs
                      /\ req' = [req EXCEPT ![r].outcome = s.error,
                                            ![r].pc = "txn_failed",
                                            ![r].temp_path = s.temp_path,
                                            ![r].should_stop = f.ret,
                                            ![r].sawTrip = @ \/ f.ret]
                      /\ UNCHANGED <<issues, history, commits>>

Attempt(r, t) == AttemptUpTo(r, t, MaxCommits)

\* After a commit: the transaction that marks the issue applied and adds the
\* history row, then record_success and cleanup_temp; when the transaction
\* raises, record_failure and on to the next id.
TxnApplied(r, db_ok) ==
    /\ req[r].pc = "txn_applied"
    /\ LET id == req[r].cur
           issue == IssueTable[id]
       IN IF db_ok
            THEN LET s == record_success(failures, tripped, issue.job_id) IN
                 /\ issues' = [issues EXCEPT ![id] = [status |-> "applied",
                                                       backup_path |-> req[r].backup_path]]
                 /\ history' = Append(history,
                        [issue_id |-> id, job_id |-> issue.job_id,
                         file_path |-> issue.file_path,
                         backup_path |-> req[r].backup_path,
                         original_content |-> req[r].original_content,
                         patched_content |-> req[r].patched_content,
                         success |-> TRUE, rollback_available |-> TRUE,
                         pre |-> req[r].pre])
                 /\ failures' = s.failures
                 /\ tripped' = s.tripped
                 /\ fs' = cleanup_temp(fs, req[r].temp_path)
                 /\ req' = [req EXCEPT ![r] = Continue(req[r], "applied")]
            ELSE LET f == record_failure(failures, tripped, issue.job_id) IN
                 /\ failures' = f.failures
                 /\ tripped' = f.tripped
                 /\ req' = [req EXCEPT ![r] = [Continue(req[r], "transaction_failed")
                                                  EXCEPT !.sawTrip = @ \/ f.ret]]
                 /\ UNCHANGED <<fs, issues, history>>
    /\ UNCHANGED <<now, commits>>

\* After a failure in the sandbox: the transaction that marks the issue
\* failed, cleanup_temp, and the break when record_failure returned True;
\* when the transaction raises the request ends with status 500.
TxnFailed(r, db_ok) ==
    /\ req[r].pc = "txn_failed"
    /\ IF db_ok
         THEN /\ issues' = [issues EXCEPT ![req[r].cur].status = "failed"]
              /\ fs' = cleanup_temp(fs, req[r].temp_path)
              /\ req' = [req EXCEPT ![r] = IF req[r].should_stop THEN IdleReq
                                               ELSE Continue(req[r], "failed")]
         ELSE /\ req' = [req EXCEPT ![r] = IdleReq]
              /\ UNCHANGED <<fs, issues>>
    /\ UNCHANGED <<now, history, commits, failures, tripped>>

\* The list is exhausted: db.commit() and the response.
Finish(r) ==
    /\ req[r].pc = "next"
    /\ req' = [req EXCEPT ![r] = IdleReq]
    /\ UNCHANGED <<fs, now, issues, history, commits, failures, tripped>>

HistoryOf(id) == {h \in 1..Len(history) : history[h].issue_id = id}

RolledBackRow_unmarked(row) == row

\* update(PatchHistory).values(rollback_available=False)
RolledBackRow(row) == [row EXCEPT !.rollback_available = FALSE]

\* POST /patches/rollback/{issue_id}: scalar_one_or_none() gives the row when
\* the issue has exactly one (none: 404, several: it raises); a row without
\* rollback_available: 400; otherwise the file is restored from the row's
\* backup, the issue goes back to pending and the row is marked. Every
\* HTTPException raised on the way is caught by the handler's own `except
\* Exception` and answered as status 500 with the first one as detail.
rollback_patch(id) ==
    /\ IF Cardinality(HistoryOf(id)) = 0
         THEN /\ rollback_response' = Response(id, 500, "404: Patch history not found")
              /\ UNCHANGED <<fs, issues, history>>
       ELSE IF Cardinality(HistoryOf(id)) > 1
         THEN /\ rollback_response' = Response(id, 500, "Multiple rows were found")
              /\ UNCHANGED <<fs, issues, history>>
       ELSE LET h == CHOOSE x \in HistoryOf(id) : TRUE
                r == rollback(fs, history[h].file_path, history[h].backup_path)
            IN IF ~history[h].rollback_available
                 THEN /\ rollback_response' = Response(id, 500, "400: Rollback not available")
                      /\ UNCHANGED <<fs, issues, history>>
               ELSE IF ~r.ok
                 THEN /\ rollback_response' = Response(id, 500, "500: Rollback failed")
                      /\ fs' = r.fs
                      /\ UNCHANGED <<issues, history>>
               ELSE /\ fs' = r.fs
                    /\ issues' = [issues EXCEPT ![id].status = "pending"]
                    /\ history' = [history EXCEPT ![h] = RolledBackRow(history[h])]
                    /\ rollback_response' = Response(id, 200, "rolled_back")
    /\ UNCHANGED <<now, req, commits, failures, tripped>>

\* POST /patches/reject with the one id `id`: the issue becomes rejected
\* whatever its status was.
reject_issues(id) ==
    /\ issues' = [issues EXCEPT ![id].status = "rejected"]
    /\ UNCHANGED <<fs, now, history, req, commits, failures, tripped>>

\* A backup is removed from the backups directory by something else than the
\* service: the copy of a later rollback from it raises.
LoseBackup(p) ==
    /\ Exists(fs, p)
    /\ p.dir = "backups"
    /\ fs' = Unlink(fs, p)
    /\ UNCHANGED <<now, issues, history, req, commits, failures, tripped>>

\* POST /monitoring/circuit-breaker/{job_id}/reset
ResetBreaker(k) ==
    /\ LET r == reset(failures, tripped, k) IN
         /\ failures' = r.failures
         /\ tripped' = r.tripped
    /\ UNCHANGED <<fs, now, issues, history, req, commits>>

(***************************************************************************)
(* Deduplicator (services/deduplicator.py)                                 *)
(***************************************************************************)
SEVERITY_ORDER == [critical |-> 4, high |-> 3, medium |-> 2, low |-> 1]

\* SEVERITY_ORDER.get(severity, 0)
SeverityRank(severity) ==
    IF severity \in DOMAIN SEVERITY_ORDER THEN SEVERITY_ORDER[severity] ELSE 0

\* Bound of the deduplicator model: the longest list of pending issues
MaxIssues == 3

DedupKeys == {<<"fileA", 10>>, <<"fileA", 12>>}
DedupPatches == {<<"replace_line", "c1">>, <<"replace_line", "c2">>,
                 <<"insert_after_line", "c1">>, <<"annotate", "c1">>}
Severities == DOMAIN SEVERITY_ORDER

\* One entry of issues_dict as deduplicate_job_issues builds it from a pending
\* row; conflict_with and superseded_by are the keys the deduplicator adds
\* (superseded_by: <<>> while the key is absent, <<id>> once it is set).
IssueDict(id, key, patch, severity) ==
    [id |-> id, file_path |-> key[1], line_number |-> key[2],
     action |-> patch[1], code |-> patch[2], severity |-> severity,
     status |-> "pending", conflict_with |-> <<>>, superseded_by |-> <<>>]

KeyOf(issue) == <<issue.file_path, issue.line_number>>

RECURSIVE GroupKeys(_, _)
\* The keys of grouped (a defaultdict) in the order of their first insertion.
GroupKeys(list, seen) ==
    IF list = <<>> THEN <<>>
    ELSE LET key == KeyOf(Head(list)) IN
         IF key \in seen THEN GroupKeys(Tail(list), seen)
         ELSE <<key>> \o GroupKeys(Tail(list), seen \cup {key})

grouped_by_file(list, key) == SelectSeq(list, LAMBDA x : x.file_path = key[1])

\* grouped[key]
grouped(list, key) == SelectSeq(list, LAMBDA x : KeyOf(x) = key)

check_patch_conflict_all_actions(line_issues) ==
    LET n == 1..Len(line_issues)
        actions == {line_issues[i].action : i \in n}
        codes == {line_issues[i].code : i \in n}
    IN "replace_line" \in actions /\ Cardinality(codes) > 1

\* _check_patch_conflict: the actions and codes of the replace_line issues.
check_patch_conflict(line_issues) ==
    LET replacing == {i \in 1..Len(line_issues) : line_issues[i].action = "replace_line"}
        actions == {line_issues[i].action : i \in replacing}
        codes == {line_issues[i].code : i \in replacing}
    IN "replace_line" \in actions /\ Cardinality(codes) > 1

RECURSIVE SortByRank(_, _, _)
\* The issues of rank `rank`, then those of the next rank in direction `step`
\* (a stable sort by rank).
SortByRank(line_issues, rank, step) ==
    IF rank < 0 \/ rank > SEVERITY_ORDER.critical THEN <<>>
    ELSE SelectSeq(line_issues, LAMBDA x : SeverityRank(x.severity) = rank)
           \o SortByRank(line_issues, rank + step, step)

sorted_issues_ascending(line_issues) == SortByRank(line_issues, 0, 1)

sorted_issues_ties_reversed(line_issues) ==
    LET ascending == SortByRank(line_issues, 0, 1) IN
    [i \in 1..Len(ascending) |-> ascending[Len(ascending) + 1 - i]]

\* sorted(line_issues, key=rank, reverse=True): highest rank first, issues of
\* one rank in the order they had.
sorted_issues(line_issues) == SortByRank(line_issues, SEVERITY_ORDER.critical, 0 - 1)

\* The body of the loop over grouped.items(): what one group appends.
resolve_group(line_issues) ==
    IF Len(line_issues) = 1 THEN line_issues
    ELSE IF check_patch_conflict(line_issues)
      THEN LET conflict_ids == [i \in 1..Len(line_issues) |-> line_issues[i].id] IN
           [i \in 1..Len(line_issues) |->
              [line_issues[i] EXCEPT
                 !.status = "conflict",
                 !.conflict_with = SelectSeq(conflict_ids, LAMBDA id : id /= line_issues[i].id)]]
      ELSE LET sorted == sorted_issues(line_issues)
               highest == sorted[1]
           IN <<highest>> \o
              [i \in 1..(Len(sorted) - 1) |->
                 [sorted[i + 1] EXCEPT !.status = "superseded", !.superseded_by = <<highest.id>>]]

RECURSIVE ResolveGroups(_, _)
ResolveGroups(list, keys) ==
    IF keys = <<>> THEN <<>>
    ELSE resolve_group(grouped(list, Head(keys))) \o ResolveGroups(list, Tail(keys))

deduplicate_issues(list) == ResolveGroups(list, GroupKeys(list, {}))

DedupIdle ==
    /\ issues_dict = <<>>
    /\ deduplicated = <<>>
    /\ dedup_pc = "idle"

\* issues_dict is built from the pending issues of a job, ids in the order of
\* the select.
DedupInit ==
    /\ \E n \in 1..MaxIssues :
          \E c \in [1..n -> DedupKeys \X DedupPatches \X Severities] :
             issues_dict = [i \in 1..n |-> IssueDict(i, c[i][1], c[i][2], c[i][3])]
    /\ deduplicated = <<>>
    /\ dedup_pc = "called"

\* deduplicator.deduplicate_issues(issues_dict)
Deduplicate ==
    /\ dedup_pc = "called"
    /\ deduplicated' = deduplicate_issues(issues_dict)
    /\ dedup_pc' = "returned"
    /\ UNCHANGED issues_dict

(***************************************************************************)
(* Chunker (services/chunker.py)                                           *)
(*                                                                         *)
(* A line is known by the tag it holds, if any; indices count from 0 as    *)
(* in the code, line i of the code is chunk_lines[i + 1].                  *)
(***************************************************************************)
\* Bounds of the chunker model
MaxLines == 5
MaxChunkSize == 3
MaxChunks == 6
ContextLines == 1

\* _find_closing_tag's default max_search
max_search == 100

LineKinds == {"text", "<script>", "</script>", "<head>", "</head>"}

\* BLOCK_PATTERNS in the order of the dict: the lines the opening and the
\* closing pattern of each block match.
BLOCK_PATTERNS ==
    <<[name |-> "script", open |-> {"<script>", "<script type=ld+json>"}, close |-> {"</script>"}],
      [name |-> "head", open |-> {"<head>", "<header>"}, close |-> {"</head>"}],
      [name |-> "json_ld", open |-> {"<script type=ld+json>"}, close |-> {"</script>"}],
      [name |-> "style", open |-> {"<style>"}, close |-> {"</style>"}]>>

\* The Chunker objects of the model: chunk_size above overlap, as in the
\* singleton Chunker(180, 20, 10).
Chunkers ==
    {c \in [chunk_size : 1..MaxChunkSize, overlap : 0..MaxChunkSize,
            context_lines : {ContextLines}] : c.overlap < c.chunk_size}

None == [none |-> TRUE]
\* lines[a:b] for 0 <= a
Slice(list, a, b) == SubSeq(list, a + 1, Min(b, Len(list)))
\* '\n'.join(x) if x else None
JoinOrNone(x) == IF x = <<>> THEN None ELSE x

find_closing_tag_short(list, start_line, close, total_lines) ==
    LET search_end == Min(start_line + max_search - 1, total_lines)
        found == {i \in start_line..(search_end - 1) : list[i + 1] \in close}
    IN IF found = {} THEN <<>> ELSE <<CHOOSE i \in found : \A j \in found : i <= j>>

\* _find_closing_tag: <<i>> for the first line from start_line on, max_search
\* lines at most, that the closing pattern matches; <<>> for None.
find_closing_tag(list, start_line, close, total_lines) ==
    LET search_end == Min(start_line + max_search, total_lines)
        found == {i \in start_line..(search_end - 1) : list[i + 1] \in close}
    IN IF found = {} THEN <<>> ELSE <<CHOOSE i \in found : \A j \in found : i <= j>>

RECURSIVE ExpandMatches(_, _, _, _, _)
\* for open_match in open_matches, in the order of the opening lines
ExpandMatches(list, open_lines, close, end, total_lines) ==
    IF open_lines = {} THEN end
    ELSE LET open_line == CHOOSE i \in open_lines : \A j \in open_lines : i <= j
             close_line == find_closing_tag(list, open_line, close, total_lines)
             new_end == IF close_line /= <<>> /\ close_line[1] >= end
                          THEN Min(close_line[1] + 1, total_lines)
                          ELSE end
         IN ExpandMatches(list, open_lines \ {open_line}, close, new_end, total_lines)

RECURSIVE ExpandPatterns(_, _, _, _, _, _)
\* for block_name, (open_pattern, close_pattern) in BLOCK_PATTERNS.items():
\* the opening tags are looked for in lines[start:end0], the chunk as it was
\* on entry.
ExpandPatterns(list, start, end0, n, end, total_lines) ==
    IF n > Len(BLOCK_PATTERNS) THEN end
    ELSE ExpandPatterns(list, start, end0, n + 1,
            ExpandMatches(list,
                          {i \in start..(end0 - 1) : list[i + 1] \in BLOCK_PATTERNS[n].open},
                          BLOCK_PATTERNS[n].close, end, total_lines),
            total_lines)

expand_for_semantic_blocks(list, start, end, total_lines) ==
    ExpandPatterns(list, start, end, 1, end, total_lines)

tentative_end_inclusive(start, chunk_size, total_lines) ==
    Min(start + chunk_size + 1, total_lines)

\* end = min(start + self.chunk_size, total_lines)
tentative_end(start, chunk_size, total_lines) == Min(start + chunk_size, total_lines)

next_start_skip(end, overlap) == end - overlap + 1

\* start = end - self.overlap
next_start(end, overlap) == end - overlap

loop_break_early(start, end, total_lines) == start >= total_lines \/ end >= total_lines - 1

loop_break_start_only(start, end, total_lines) == start >= total_lines

\* if start >= total_lines or end >= total_lines: break
loop_break(start, end, total_lines) == start >= total_lines \/ end >= total_lines

ChunkIdle ==
    /\ chunker = [chunk_size |-> 1, overlap |-> 0, context_lines |-> ContextLines]
    /\ chunk_lines = <<>>
    /\ chunk_start = 0
    /\ chunks = <<>>
    /\ chunk_pc = "idle"

ChunkInit ==
    /\ chunker \in Chunkers
    /\ \E n \in 0..MaxLines : chunk_lines \in [1..n -> LineKinds]
    /\ chunk_start = 0
    /\ chunks = <<>>
    /\ chunk_pc = "called"

\* Chunker.__init__ stores chunk_size and overlap as given: the objects with
\* chunk_size >= 1 and 0 <= overlap <= chunk_size (start stays >= 0).
AnyChunkers ==
    {c \in [chunk_size : 1..MaxChunkSize, overlap : 0..MaxChunkSize,
            context_lines : {ContextLines}] : c.overlap <= c.chunk_size}

ChunkAnyInit ==
    /\ chunker \in AnyChunkers
    /\ \E n \in 0..MaxLines : chunk_lines \in [1..n -> LineKinds]
    /\ chunk_start = 0
    /\ chunks = <<>>
    /\ chunk_pc = "called"

\* The singleton chunker = Chunker(chunk_size=180, overlap=20, context_lines=10)
SingletonChunker == [chunk_size |-> 180, overlap |-> 20, context_lines |-> 10]

\* Bounds of the files given to the singleton: the longest file without a
\* block; for a file with one block, how far before the end of the first
\* tentative range the block opens, the lines between its opening and its
\* closing line, and the lines after the closing line.
MaxLongLines == 200
MaxBack == 10
MaxGap == 100
MaxTail == 1

TextLines(n) == [i \in 1..n |-> "text"]
BlockFile(before, open, between, close, after) ==
    TextLines(before) \o <<open>> \o TextLines(between) \o <<close>> \o TextLines(after)

BlockTags == {<<"<script>", "</script>">>, <<"<script type=ld+json>", "</script>">>,
              <<"<head>", "</head>">>, <<"<style>", "</style>">>}

\* chunker.chunk_file(file_record.file_path, content) of routers/jobs.py, for
\* a file of text lines and for a file with one block that opens in the last
\* lines of the first tentative range.
ChunkLongInit ==
    /\ chunker = SingletonChunker
    /\ \/ \E n \in 1..MaxLongLines : chunk_lines = TextLines(n)
       \/ \E tags \in BlockTags, back \in 0..MaxBack, between \in 0..MaxGap, after \in 0..MaxTail :
             chunk_lines = BlockFile(SingletonChunker.chunk_size - 1 - back, tags[1],
                                     between, tags[2], after)
    /\ chunk_start = 0
    /\ chunks = <<>>
    /\ chunk_pc = "called"

\* chunk_file up to the loop: an empty file returns [].
ChunkFileEnter ==
    /\ chunk_pc = "called"
    /\ chunk_pc' = IF Len(chunk_lines) = 0 THEN "returned" ELSE "loop"
    /\ chunk_start' = 0
    /\ chunks' = <<>>
    /\ UNCHANGED <<chunker, chunk_lines>>

\* One pass of `while start < total_lines`. The list is kept up to MaxChunks
\* chunks: a call that returns appends fewer (start grows with every pass of
\* such a call), so only a loop that does not end reaches the limit.
ChunkFileLoop ==
    /\ chunk_pc = "loop"
    /\ LET total_lines == Len(chunk_lines)
           start == chunk_start
           end == expand_for_semantic_blocks(chunk_lines, start,
                      tentative_end(start, chunker.chunk_size, total_lines), total_lines)
           context_head_start == Max(0, start - chunker.context_lines)
           context_tail_end == Min(total_lines, end + chunker.context_lines)
           chunk == [start_line |-> start + 1,
                     end_line |-> end,
                     content |-> Slice(chunk_lines, start, end),
                     context_head |-> JoinOrNone(Slice(chunk_lines, context_head_start, start)),
                     context_tail |-> JoinOrNone(Slice(chunk_lines, end, context_tail_end)),
                     line_count |-> Len(Slice(chunk_lines, start, end))]
           new_start == next_start(end, chunker.overlap)
       IN /\ chunks' = IF Len(chunks) < MaxChunks THEN Append(chunks, chunk) ELSE chunks
          /\ chunk_start' = new_start
          /\ chunk_pc' = IF loop_break(new_start, end, total_lines) \/ ~(new_start < total_lines)
                           THEN "returned" ELSE "loop"
    /\ UNCHANGED <<chunker, chunk_lines>>

(***************************************************************************)
(* Specifications                                                          *)
(***************************************************************************)
\* generate_content runs model.generate_content in a thread under wait_for:
\* when wait_for times out the block is left while the thread runs on;
\* analyze_chunk calls model.generate_content itself and has no timeout.
Orphaned(t, exc_type) ==
    IF exc_type = "timeout"
      THEN /\ task[t].kind = "generate_content"
           /\ orphans < MaxOrphans
           /\ orphans' = orphans + 1
      ELSE UNCHANGED orphans

\* The thread of a call that had timed out ends.
ThreadDone ==
    /\ orphans > 0
    /\ orphans' = orphans - 1
    /\ UNCHANGED <<semValue, semWaiters, active_requests, total_requests, queue_size, task>>

GateFrame == UNCHANGED <<breakerVars, patchVars, dedupVars, chunkVars, engineVars>>
GateNext ==
    \/ \E t \in Tasks : acquire(t) /\ UNCHANGED orphans /\ GateFrame
    \/ \E t \in Tasks, exc_type \in ExitPaths : aexit(t, exc_type) /\ Orphaned(t, exc_type) /\ GateFrame
    \/ \E t \in Tasks : resume(t) /\ UNCHANGED orphans /\ GateFrame
    \/ ThreadDone /\ GateFrame

InitGate == GateInit /\ BreakerInit /\ PatchInit /\ DedupIdle /\ ChunkIdle /\ EngineIdle

SpecGate == InitGate /\ [][GateNext]_vars

BreakerNext ==
    \/ \E k \in Jobs : CallRecordFailure(k) /\ UNCHANGED <<gateVars, patchVars, dedupVars, chunkVars, engineVars>>
    \/ \E k \in Jobs : CallRecordSuccess(k) /\ UNCHANGED <<gateVars, patchVars, dedupVars, chunkVars, engineVars>>
    \/ \E k \in Jobs : CallIsTripped(k) /\ UNCHANGED <<gateVars, patchVars, dedupVars, chunkVars, engineVars>>
    \/ \E k \in Jobs : CallReset(k) /\ UNCHANGED <<gateVars, patchVars, dedupVars, chunkVars, engineVars>>

GateIdle ==
    /\ GateInit
    /\ task = [t \in Tasks |-> [pc |-> "ready", held |-> 0, kind |-> "generate_content"]]

InitBreaker == GateIdle /\ BreakerInit /\ PatchInit /\ DedupIdle /\ ChunkIdle /\ EngineIdle

SpecBreaker == InitBreaker /\ [][BreakerNext]_vars

PatchFrame == UNCHANGED <<gateVars, lastCall, streak, dedupVars, chunkVars, engineVars>>

\* The handler selects patch_history rows by issue_id and never reads the
\* issue itself, so every id without a row is answered like MissingId.
RollbackIds == {id \in IssueIds : HistoryOf(id) # {}} \cup {MissingId}

\* A step that is no rollback request.
NoRollback == rollback_response' = NoResponse

PatchNext ==
    \/ \E r \in Reqs, e \in EditedCodes : StartApprove(r, e) /\ NoRollback /\ PatchFrame
    \/ \E r \in Reqs, id \in IssueIds \cup {MissingId} : NextId(r, id) /\ NoRollback /\ PatchFrame
    \/ \E r \in Reqs, t \in now..MaxClock : Attempt(r, t) /\ NoRollback /\ PatchFrame
    \/ \E r \in Reqs, db_ok \in BOOLEAN : TxnApplied(r, db_ok) /\ NoRollback /\ PatchFrame
    \/ \E r \in Reqs, db_ok \in BOOLEAN : TxnFailed(r, db_ok) /\ NoRollback /\ PatchFrame
    \/ \E r \in Reqs : Finish(r) /\ NoRollback /\ PatchFrame
    \/ \E id \in RollbackIds : rollback_patch(id) /\ PatchFrame
    \/ \E k \in Jobs : ResetBreaker(k) /\ NoRollback /\ PatchFrame

InitPatch == GateIdle /\ BreakerInit /\ PatchInit /\ DedupIdle /\ ChunkIdle /\ EngineIdle

SpecPatch == InitPatch /\ [][PatchNext]_vars

DedupNext == Deduplicate /\ UNCHANGED <<gateVars, breakerVars, patchVars, chunkVars, engineVars>>

\* One approval request at a time on the issues of index.html, rollback
\* requests, rejections and the loss of backups.
RestoreNext ==
    \/ \E r \in Reqs, e \in EditedCodes : StartApprove(r, e) /\ NoRollback /\ PatchFrame
    \/ \E r \in Reqs, id \in {"i1", "i2"} : NextId(r, id) /\ NoRollback /\ PatchFrame
    \/ \E r \in Reqs, t \in now..MaxClock : Attempt(r, t) /\ NoRollback /\ PatchFrame
    \/ \E r \in Reqs, db_ok \in BOOLEAN : TxnApplied(r, db_ok) /\ NoRollback /\ PatchFrame
    \/ \E r \in Reqs, db_ok \in BOOLEAN : TxnFailed(r, db_ok) /\ NoRollback /\ PatchFrame
    \/ \E r \in Reqs : Finish(r) /\ NoRollback /\ PatchFrame
    \/ \E id \in RollbackIds : rollback_patch(id) /\ PatchFrame
    \/ \E id \in {"i1", "i2"} : reject_issues(id) /\ NoRollback /\ PatchFrame
    \/ \E p \in DOMAIN fs : LoseBackup(p) /\ NoRollback /\ PatchFrame

SpecRestore == InitPatch /\ [][RestoreNext]_vars

InitDedup == GateIdle /\ BreakerInit /\ PatchInit /\ DedupInit /\ ChunkIdle /\ EngineIdle

SpecDedup == InitDedup /\ [][DedupNext]_vars

ChunkNext ==
    \/ ChunkFileEnter /\ UNCHANGED <<gateVars, breakerVars, patchVars, dedupVars, engineVars>>
    \/ ChunkFileLoop /\ UNCHANGED <<gateVars, breakerVars, patchVars, dedupVars, engineVars>>

InitChunk == GateIdle /\ BreakerInit /\ PatchInit /\ DedupIdle /\ ChunkInit /\ EngineIdle

SpecChunk == InitChunk /\ [][ChunkNext]_vars

InitChunkAny == GateIdle /\ BreakerInit /\ PatchInit /\ DedupIdle /\ ChunkAnyInit /\ EngineIdle

\* chunk_file runs to its end unless its loop goes on for ever: every pass
\* that can be taken is taken.
SpecChunkAny == InitChunkAny /\ [][ChunkNext]_vars /\ WF_vars(ChunkNext)

\* Two POST /patches/approve requests on the one event loop, each taking ids
\* of edits of index.html: i1 (applies), i2 (refused by the validation).
PairReqs == {"r1", "r2"}
PairNext ==
    \/ \E r \in PairReqs, e \in EditedCodes : StartApprove(r, e) /\ NoRollback /\ PatchFrame
    \/ \E r \in PairReqs, id \in {"i1", "i2"} : NextId(r, id) /\ NoRollback /\ PatchFrame
    \/ \E r \in PairReqs, t \in now..MaxClock :
          AttemptUpTo(r, t, MaxCommits + 1) /\ NoRollback /\ PatchFrame
    \/ \E r \in PairReqs, db_ok \in BOOLEAN : TxnApplied(r, db_ok) /\ NoRollback /\ PatchFrame
    \/ \E r \in PairReqs, db_ok \in BOOLEAN : TxnFailed(r, db_ok) /\ NoRollback /\ PatchFrame
    \/ \E r \in PairReqs : Finish(r) /\ NoRollback /\ PatchFrame
InitPair ==
    /\ GateIdle /\ BreakerInit /\ DedupIdle /\ ChunkIdle /\ EngineIdle
    /\ fs = (IndexHtml :> <<"<head>", NL, "<body>", NL>>)
    /\ now = 0
    /\ issues = [i \in IssueIds |-> [status |-> "pending", backup_path |-> NoPath]]
    /\ history = <<>>
    /\ req = [r \in PairReqs |-> IdleReq]
    /\ commits = 0
    /\ rollback_response = NoResponse
SpecPair == InitPair /\ [][PairNext]_vars

EngineNext ==
    \/ CallPatchStrategy /\ UNCHANGED <<gateVars, breakerVars, dedupVars, chunkVars>>
    \/ CallApplyAndValidate /\ UNCHANGED <<gateVars, breakerVars, dedupVars, chunkVars>>
InitEngine ==
    /\ GateIdle /\ BreakerInit /\ DedupIdle /\ ChunkIdle /\ EngineInit
    /\ now = 0
    /\ issues = [i \in IssueIds |-> [status |-> "pending", backup_path |-> NoPath]]
    /\ history = <<>>
    /\ req = [r \in Reqs |-> IdleReq]
    /\ commits = 0
    /\ rollback_response = NoResponse
SpecEngine == InitEngine /\ [][EngineNext]_vars

InitSegment ==
    GateIdle /\ BreakerInit /\ PatchInit /\ DedupIdle /\ (ChunkInit \/ ChunkLongInit) /\ EngineIdle

SpecSegment == InitSegment /\ [][ChunkNext]_vars

(***************************************************************************)
(* Claims                                                                  *)
(***************************************************************************)

\* C1: at no instant are more than MAX_CONCURRENT_REQUESTS (3) permits of the
\* rate limiter held, whatever the interleaving of acquire and release; the
\* limiter's own active_requests counter is the number of permits held.
GateCapacity ==
    /\ PermitsHeld <= MAX_CONCURRENT_REQUESTS
    /\ active_requests = PermitsHeld

\* C1 witness: all three permits are held while another caller waits.
GateFullWithWaiter ==
    /\ PermitsHeld = MAX_CONCURRENT_REQUESTS
    /\ \E t \in Tasks : task[t].pc = "waiting"

\* C2: five record_failure(k) calls in a row leave k tripped; record_success(k)
\* sets the failure counter of k to 0 and leaves the trip flag as it was; the
\* flag of a tripped key is cleared by reset(k) only.
BreakerLatch ==
    /\ [](\A k \in Jobs : streak[k] >= FAILURE_THRESHOLD => is_tripped(tripped, k))
    /\ [][\A k \in Jobs :
            /\ (lastCall'[1] = "record_success" /\ lastCall'[2] = k)
                  => (failures'[k] = 0 /\ tripped'[k] = tripped[k])
            /\ (tripped[k] /\ ~tripped'[k])
                  => (lastCall'[1] = "reset" /\ lastCall'[2] = k)]_vars

\* C2 witness: a tripped key whose counter a recorded success has set to 0.
BreakerLatchedAfterSuccess ==
    \E k \in Jobs :
        /\ tripped[k]
        /\ failures[k] = 0
        /\ lastCall = <<"record_success", k, FALSE>>

\* C3: when validate_func refuses the patched scratch copy inside
\* apply_and_validate, the original file has after the call the content it
\* had before it.
SandboxAtomicity ==
    [][\A r \in Reqs :
          (req[r].pc = "select" /\ req'[r].pc = "txn_failed" /\ req'[r].outcome = "validation")
            => LET original_path == IssueTable[req[r].cur].file_path IN
               /\ Exists(fs', original_path)
               /\ fs'[original_path] = fs[original_path]]_vars

\* C3 witness: a pass of approve_issues whose sandbox run ended with the
\* validation refusing the patch.
ValidationRefused ==
    \E r \in Reqs : req[r].pc = "txn_failed" /\ req[r].outcome = "validation"

\* C4: rolling an applied edit back with the backup its history row records
\* gives the file the content it had before the edit was applied.
RollbackRoundTrip ==
    [][\A h \in 1..Len(history) :
          (Len(history') = Len(history)
             /\ history[h].rollback_available /\ ~history'[h].rollback_available)
            => fs'[history[h].file_path] = history[h].pre]_vars

\* C5: once the breaker has reported tripped to a batch (record_failure
\* returned True or is_tripped was True), the batch stops: it takes no further
\* id of its list and attempts no further edit.
BatchHaltOnTrip ==
    [][\A r \in Reqs :
          req[r].sawTrip
            => /\ (req[r].pc = "next" => req'[r].pc /= "select")
               /\ (req[r].pc = "select" => req'[r].pc \notin {"txn_applied", "txn_failed"})]_vars

\* C6: a pass of approve_issues over an edit whose job is tripped rejects the
\* edit and creates, changes and deletes no file.
TrippedRejectsUntouched ==
    [][\A r \in Reqs :
          (/\ req[r].pc = "select"
           /\ req'[r].pc /= "select"
           /\ req[r].cur \in IssueIds
           /\ tripped[IssueTable[req[r].cur].job_id])
            => /\ fs' = fs
               /\ issues' = issues
               /\ req'[r].outcome = "circuit_breaker_tripped"]_vars

\* C6 witness: a job tripped by five failed attempts, and an edit of it
\* rejected for that.
RejectedAfterTrip ==
    \E r \in Reqs :
        /\ req[r].outcome = "circuit_breaker_tripped"
        /\ req[r].cur \in IssueIds
        /\ tripped[IssueTable[req[r].cur].job_id]
        /\ failures[IssueTable[req[r].cur].job_id] >= FAILURE_THRESHOLD

ResolverSupersedeRule ==
    dedup_pc = "returned" =>
      \A key \in DedupKeys :
        LET group == {j \in 1..Len(issues_dict) : KeyOf(issues_dict[j]) = key}
            differing == \E a, b \in group :
                            /\ issues_dict[a].action = "replace_line"
                            /\ issues_dict[b].action = "replace_line"
                            /\ issues_dict[a].code /= issues_dict[b].code
            out == {n \in 1..Len(deduplicated) : KeyOf(deduplicated[n]) = key}
            kept == {n \in out : deduplicated[n].status = "pending"}
        IN (Cardinality(group) >= 2 /\ ~differing) =>
             /\ Cardinality(out) = Cardinality(group)
             /\ Cardinality(kept) = 1
             /\ \A n \in kept :
                  /\ \A j \in group :
                       SeverityRank(issues_dict[j].severity) <= SeverityRank(deduplicated[n].severity)
                  /\ \A m \in out \ {n} :
                       /\ deduplicated[m].status = "superseded"
                       /\ deduplicated[m].superseded_by = <<deduplicated[n].id>>

\* C8 witness: a group of three without conflict whose kept issue was the last
\* of the three in the list and whose other issues differ in severity.
KeptIssueCameLast ==
    /\ dedup_pc = "returned"
    /\ Len(deduplicated) = 3
    /\ deduplicated[1].status = "pending"
    /\ deduplicated[1].id = 3
    /\ deduplicated[2].status = "superseded"
    /\ deduplicated[3].status = "superseded"
    /\ deduplicated[2].severity /= deduplicated[3].severity

\* C9: the chunks chunk_file returns for a file of N >= 1 lines cover the lines
\* 1..N: the first starts at line 1, the last ends at line N, each starts no
\* later than the line after the end of the one before, and every line is in
\* some chunk.
SegmenterCoverage ==
    (chunk_pc = "returned" /\ Len(chunk_lines) >= 1) =>
      /\ Len(chunks) >= 1
      /\ chunks[1].start_line = 1
      /\ chunks[Len(chunks)].end_line = Len(chunk_lines)
      /\ \A i \in 1..(Len(chunks) - 1) : chunks[i + 1].start_line <= chunks[i].end_line + 1
      /\ \A l \in 1..Len(chunk_lines) :
           \E i \in 1..Len(chunks) : chunks[i].start_line <= l /\ l <= chunks[i].end_line

\* C9 witness: a file returned in three chunks or more, one of them longer
\* than chunk_size by semantic expansion.
ThreeChunksOneExpanded ==
    /\ chunk_pc = "returned"
    /\ Len(chunks) >= 3
    /\ \E i \in 1..Len(chunks) : chunks[i].line_count > chunker.chunk_size

\* C10: any two consecutive chunks chunk_file returns share exactly overlap
\* lines: the later one starts at the end line of the earlier one minus overlap
\* plus 1, also when semantic expansion moved that end.
SegmenterOverlap ==
    chunk_pc = "returned" =>
      \A i \in 1..(Len(chunks) - 1) :
        /\ chunks[i + 1].start_line = chunks[i].end_line - chunker.overlap + 1
        /\ Cardinality((chunks[i].start_line..chunks[i].end_line)
                         \cap (chunks[i + 1].start_line..chunks[i + 1].end_line))
             = chunker.overlap

\* C10 witness: two consecutive chunks with an overlap of one line or more,
\* the earlier of them longer than chunk_size by semantic expansion.
OverlapAfterExpansion ==
    /\ chunk_pc = "returned"
    /\ chunker.overlap >= 1
    /\ \E i \in 1..(Len(chunks) - 1) : chunks[i].line_count > chunker.chunk_size

SegmentLayout ==
    (chunk_pc = "returned" /\ \A l \in 1..Len(chunk_lines) : chunk_lines[l] = "text") =>
      LET N == Len(chunk_lines) IN
      /\ \A i \in 1..Len(chunks) :
           /\ chunks[i].start_line = 1 + (i - 1) * (chunker.chunk_size - chunker.overlap)
           /\ chunks[i].end_line = Min(N, chunks[i].start_line + chunker.chunk_size - 1)
           /\ (chunks[i].end_line = N) <=> (i = Len(chunks))
      /\ N >= 1 => Len(chunks) >= 1
      /\ (chunker = SingletonChunker /\ N = 200) =>
           /\ Len(chunks) = 2
           /\ chunks[2].start_line = 161
           /\ chunks[2].end_line = 200

\* C12 witness: the 200 lines of text chunked by the singleton.
TwoHundredLinesReturned ==
    /\ chunk_pc = "returned"
    /\ chunker = SingletonChunker
    /\ Len(chunk_lines) = 200
    /\ \A l \in 1..Len(chunk_lines) : chunk_lines[l] = "text"
    /\ Len(chunks) = 2

\* C13: a rollback request that succeeds leaves its issue pending and its
\* patch-history row with rollback_available false; a rollback request for an
\* issue that has a row whose rollback was already used is answered with an
\* error and leaves the files, the issues and the history as they were.
OneRollbackPerRecord ==
    [][\A id \in IssueIds :
         (rollback_response' /= NoResponse /\ rollback_response'.issue_id = id) =>
           /\ rollback_response'.status_code = 200 =>
                /\ issues'[id].status = "pending"
                /\ \A h \in HistoryOf(id) : ~history'[h].rollback_available
           /\ (\E h \in HistoryOf(id) : ~history[h].rollback_available) =>
                /\ rollback_response'.status_code >= 400
                /\ fs' = fs
                /\ issues' = issues
                /\ history' = history]_vars

\* C13 witness: a second rollback request for a record already rolled back,
\* answered with the error.
SecondRollbackRefused ==
    /\ rollback_response.detail = "400: Rollback not available"
    /\ \E h \in HistoryOf(rollback_response.issue_id) : ~history[h].rollback_available

\* C14: the backup an applied edit records holds the content the target file
\* had before that edit changed it: the original_content of every history row
\* is the content of the file before the pass that applied the edit.
BackupPrecedesMutation ==
    \A h \in 1..Len(history) : history[h].original_content = history[h].pre

\* The file system a call of the sandbox started from, and what patch_func
\* and validate_func give on the scratch copy of it.
EngineBefore == IF engine.present THEN <<>> @@ (engine.file_path :> engine.before) ELSE <<>>
EnginePatchFunc ==
    apply_patch(create_temp_copy(EngineBefore, engine.file_path), TempPath(engine.file_path),
                engine.line_number, engine.action, engine.code, now)
EngineOriginalUntouched ==
    /\ Exists(fs, engine.file_path) = engine.present
    /\ engine.present => fs[engine.file_path] = engine.before

\* C15: when patch_func returns failure, or a step of apply_and_validate
\* raises (the original cannot be copied), the call returns failure, the
\* original file is as it was, and a scratch file that was made is still
\* there, at the path the call returns.
SandboxFailureFrame ==
    (engine.pc = "sandboxed" /\ (~engine.present \/ ~EnginePatchFunc.success)) =>
      /\ ~engine.ret.success
      /\ EngineOriginalUntouched
      /\ engine.present =>
           /\ engine.ret.temp_path = TempPath(engine.file_path)
           /\ Exists(fs, engine.ret.temp_path)

\* C15 witness: a call whose patch_func failed on a line number out of range,
\* with the scratch file left behind.
ApplyFailedScratchKept ==
    /\ engine.pc = "sandboxed"
    /\ engine.present
    /\ ~EnginePatchFunc.success
    /\ Exists(fs, TempPath(engine.file_path))

\* C16: apply_and_validate returns success exactly when patch_func succeeded
\* on the scratch file and validate_func then accepted the scratch file; only
\* then is the original written, and its content is then the content of the
\* validated scratch file.
SandboxCommitOrdering ==
    engine.pc = "sandboxed" =>
      LET validated == /\ engine.present
                       /\ EnginePatchFunc.success
                       /\ validate_patch(EnginePatchFunc.fs, TempPath(engine.file_path),
                                         TempPath(engine.file_path).suffix)
      IN /\ engine.ret.success <=> validated
         /\ ~validated => EngineOriginalUntouched
         /\ validated =>
              /\ fs[engine.file_path] = EnginePatchFunc.fs[TempPath(engine.file_path)]
              /\ fs[engine.file_path] = fs[TempPath(engine.file_path)]

\* C16 witness: a committed call that changed the original.
SandboxCommitted ==
    /\ engine.pc = "sandboxed"
    /\ engine.ret.success
    /\ fs[engine.file_path] /= engine.before

\* Callers woken by a release that have not run again yet: each holds a slot
\* of the semaphore that acquire() has not counted so far.
Woken == {t \in Tasks : task[t].pc = "woken"}

\* C17: every exit of an `async with rate_limiter` block (return, exception,
\* timeout) gives back exactly one permit: active_requests stays the number
\* of permits held, the slots taken are those held or handed to a woken
\* caller, and when every protected call has ended active_requests is 0 and
\* the 3 slots are free.
GateScopedRelease ==
    /\ [](/\ active_requests = PermitsHeld
          /\ semValue + active_requests + Cardinality(Woken) = MAX_CONCURRENT_REQUESTS
          /\ (\A t \in Tasks : task[t].pc = "ready" /\ task[t].held = 0)
                => (active_requests = 0 /\ semValue = MAX_CONCURRENT_REQUESTS))
    /\ [][\A t \in Tasks :
            task'[t].held < task[t].held
              => /\ task'[t].held = task[t].held - 1
                 /\ active_requests' = active_requests - 1
                 /\ semValue' + Cardinality(Woken') = semValue + Cardinality(Woken) + 1]_vars

\* C17 witness: more calls than slots were admitted and all of them ended.
AllEndedAfterBackpressure ==
    /\ total_requests > MAX_CONCURRENT_REQUESTS
    /\ \A t \in Tasks : task[t].pc = "ready" /\ task[t].held = 0
    /\ semValue = MAX_CONCURRENT_REQUESTS

\* C18: callers are admitted in the order they called acquire(): a caller that
\* had to wait is admitted only when it is the earliest of the callers not
\* yet admitted, and a caller is admitted without waiting only when no caller
\* is waiting.
GateFairness ==
    [][\A t \in Tasks :
          task'[t].held > task[t].held
            => IF task[t].pc = "ready"
                 THEN semWaiters = <<>>
                 ELSE semWaiters /= <<>> /\ Head(semWaiters) = t]_vars

\* C18 witness: two callers wait, the first of them woken by a release and
\* about to be admitted.
FirstOfTwoWaitersWoken ==
    /\ Len(semWaiters) >= 2
    /\ task[semWaiters[1]].pc = "woken"
    /\ task[semWaiters[2]].pc = "waiting"

\* C19: a key whose failure counter is at least FAILURE_THRESHOLD (5) is
\* tripped; the trip flag of a key goes from false to true only in a
\* record_failure of that key that brings its counter to the threshold or
\* above, after five failures in a row with no success or reset between
\* them; and it goes from true to false only in a reset of that key.
BreakerTripCondition ==
    /\ [](\A k \in Jobs : failures[k] >= FAILURE_THRESHOLD => tripped[k])
    /\ [][\A k \in Jobs :
            /\ (~tripped[k] /\ tripped'[k])
                 => /\ lastCall' = <<"record_failure", k, TRUE>>
                    /\ failures'[k] >= FAILURE_THRESHOLD
                    /\ failures'[k] = failures[k] + 1
                    /\ streak'[k] >= FAILURE_THRESHOLD
            /\ (tripped[k] /\ ~tripped'[k])
                 => (lastCall'[1] = "reset" /\ lastCall'[2] = k /\ failures'[k] = 0)]_vars

\* C19 witness: the fifth failure in a row has just tripped a key, while the
\* other key, with fewer failures, is not tripped.
TrippedByFifthFailure ==
    \E k \in Jobs :
      /\ lastCall = <<"record_failure", k, TRUE>>
      /\ failures[k] = FAILURE_THRESHOLD
      /\ tripped[k]
      /\ \E j \in Jobs : failures[j] > 0 /\ failures[j] < FAILURE_THRESHOLD /\ ~tripped[j]

\* C20: a call of either strategy (_apply_dom_patch, _apply_line_patch) with
\* a line number out of range raises and gives no patched content: out of
\* range is line_number <= 0 or above the line count for replace_line and
\* annotate, and negative or above the line count for insert_after_line.
OutOfRangeRejection ==
    (engine.pc = "patched" /\ engine.action /= "delete_line") =>
      LET count == Len(splitlines_keepends(engine.before))
          out_of_range ==
              IF engine.action = "insert_after_line"
                THEN engine.line_number < 0 \/ engine.line_number > count
                ELSE engine.line_number <= 0 \/ engine.line_number > count
      IN out_of_range => (~engine.ret.success /\ engine.ret.content = <<>>)

\* C21: an edit whose action is none of insert_after_line, replace_line and
\* annotate is rejected: neither the strategy nor the sandbox run of
\* apply_patch reports success for it.
UnsupportedActionRejected ==
    (engine.pc \in {"patched", "sandboxed"}
       /\ engine.present
       /\ engine.action \notin {"insert_after_line", "replace_line", "annotate"})
      => ~engine.ret.success

\* C22: a pass of approve_issues whose apply or validation failed counts one
\* record_failure for the job of the edit, and when the pass has ended with
\* the edit marked failed a history row with success false is recorded for it.
FailedAttemptRecorded ==
    [][\A r \in Reqs :
          /\ (req[r].pc = "select" /\ req'[r].pc = "txn_failed")
               => LET k == IssueTable[req[r].cur].job_id IN
                  failures'[k] = failures[k] + 1
          /\ (req[r].pc = "txn_failed" /\ req'[r].pc /= "txn_failed"
                /\ issues'[req[r].cur].status = "failed")
               => \E h \in 1..Len(history') :
                     history'[h].issue_id = req[r].cur /\ ~history'[h].success]_vars

\* index.html after n commits of edit i1, each made on the file as the commit
\* before it left it.
RECURSIVE FileAfter(_)
FileAfter(n) ==
    IF n = 0 THEN <<"<head>", NL, "<body>", NL>>
    ELSE apply_dom_patch(FileAfter(n - 1), IssueTable["i1"].line_number,
                         IssueTable["i1"].action, IssueTable["i1"].code).content

\* C23: two approve_issues requests on the same file do not interleave their
\* copy / apply / validate / commit / backup sequences: the file holds the
\* effect of every edit committed so far, what a request committed is its
\* edit applied to the content it copied, and every recorded backup holds a
\* content the file had at some instant.
PerFileCriticalSection ==
    /\ fs[IndexHtml] = FileAfter(commits)
    /\ \A r \in PairReqs :
         req[r].pc = "txn_applied" =>
           LET issue == IssueTable[req[r].cur] IN
           req[r].patched_content =
             apply_dom_patch(req[r].pre, issue.line_number, issue.action, issue.code).content
    /\ \A h \in 1..Len(history) :
         /\ \E n \in 0..commits : fs[history[h].backup_path] = FileAfter(n)
         /\ \E n \in 0..commits : history[h].original_content = FileAfter(n)

\* C23 witness: both requests have run their sequence on index.html and
\* committed, the second while the first was waiting for its transaction.
BothRequestsCommitted ==
    /\ commits = 2
    /\ \A r \in PairReqs : req[r].pc = "txn_applied" /\ req[r].cur = "i1"

\* C24: whatever the order of the calls of concurrent callers, record_failure(k)
\* adds exactly one to failures(k), record_success(k) and reset(k) set it to
\* 0, is_tripped(k) reads the flag as it is and changes nothing, and no call
\* on k changes the counter or the flag of another key; so failures(k) is the
\* number of record_failure(k) calls since the last success or reset of k.
BreakerSerialization ==
    /\ [](\A k \in Jobs :
            /\ failures[k] >= streak[k]
            /\ streak[k] < FAILURE_THRESHOLD => failures[k] = streak[k])
    /\ [][\A k \in Jobs :
            IF lastCall'[2] = k
              THEN /\ lastCall'[1] = "record_failure" => failures'[k] = failures[k] + 1
                   /\ lastCall'[1] \in {"record_success", "reset"} => failures'[k] = 0
                   /\ lastCall'[1] = "is_tripped" =>
                        /\ lastCall'[3] = tripped[k]
                        /\ failures' = failures /\ tripped' = tripped
              ELSE failures'[k] = failures[k] /\ tripped'[k] = tripped[k]]_vars

\* C24 witness: calls on two keys interleaved, each counter at the number of
\* failures recorded for its own key.
TwoKeysCounted ==
    \E k \in Jobs, j \in Jobs :
      /\ k /= j
      /\ lastCall = <<"record_failure", k, FALSE>>
      /\ failures[k] = 3 /\ streak[k] = 3
      /\ failures[j] = 1 /\ streak[j] = 1

\* C25: the calls of model.generate_content in progress (those of the tasks
\* inside the `async with rate_limiter` block of generate_content, and those
\* still running in their thread) are never more than the gate's capacity.
OutboundWithinCapacity ==
    Cardinality({t \in Tasks : task[t].kind = "generate_content" /\ task[t].held > 0})
      + orphans <= MAX_CONCURRENT_REQUESTS

\* C26: deduplicate_issues returns the issues it was given, each once, with
\* id, file_path, line_number, action, code and severity as given; and an
\* issue that is alone on its (file_path, line_number) is returned as given.
ResolverPreservesIssues ==
    dedup_pc = "returned" =>
      /\ Len(deduplicated) = Len(issues_dict)
      /\ \A j \in 1..Len(issues_dict) :
           LET given == issues_dict[j]
               out == {n \in 1..Len(deduplicated) : deduplicated[n].id = given.id}
               alone == \A i \in 1..Len(issues_dict) :
                           KeyOf(issues_dict[i]) = KeyOf(given) => i = j
           IN /\ Cardinality(out) = 1
              /\ \A n \in out :
                   /\ deduplicated[n].file_path = given.file_path
                   /\ deduplicated[n].line_number = given.line_number
                   /\ deduplicated[n].action = given.action
                   /\ deduplicated[n].code = given.code
                   /\ deduplicated[n].severity = given.severity
                   /\ alone => deduplicated[n] = given

\* C26 witness: three issues returned, two of one line (one of them
\* superseded) and one alone on its line.
GroupAndSingletonReturned ==
    /\ dedup_pc = "returned"
    /\ Len(deduplicated) = 3
    /\ \E n \in 1..3 : deduplicated[n].status = "superseded"
    /\ \E n \in 1..3 : \A m \in 1..3 : KeyOf(deduplicated[m]) = KeyOf(deduplicated[n]) => m = n

\* C27: in a group of several issues without conflict the issue kept is, of
\* the issues of the highest severity rank in the group, the one that comes
\* first in the list given.
ResolverTieBreak ==
    dedup_pc = "returned" =>
      \A key \in DedupKeys :
        LET group == {j \in 1..Len(issues_dict) : KeyOf(issues_dict[j]) = key}
            top == {j \in group : \A i \in group :
                       SeverityRank(issues_dict[i].severity) <= SeverityRank(issues_dict[j].severity)}
            first == CHOOSE j \in top : \A i \in top : j <= i
        IN (Cardinality(group) >= 2 /\ ~check_patch_conflict(grouped(issues_dict, key))) =>
             \A n \in 1..Len(deduplicated) :
               KeyOf(deduplicated[n]) = key =>
                 IF deduplicated[n].id = issues_dict[first].id
                   THEN deduplicated[n] = issues_dict[first]
                   ELSE /\ deduplicated[n].status = "superseded"
                        /\ deduplicated[n].superseded_by = <<issues_dict[first].id>>

\* C27 witness: three issues of one line, the second and the third tied at
\* the highest severity, the second kept.
TieKeptFirst ==
    /\ dedup_pc = "returned"
    /\ Len(issues_dict) = 3
    /\ \A j \in 1..3 : KeyOf(issues_dict[j]) = KeyOf(issues_dict[1])
    /\ issues_dict[1].severity = "low"
    /\ issues_dict[2].severity = "high"
    /\ issues_dict[3].severity = "high"
    /\ deduplicated[1].id = issues_dict[2].id
    /\ deduplicated[1].status = "pending"

\* C28: insert_after_line with 0 <= line_number <= N on a file of N lines
\* gives N + 1 lines: the code as a line of its own at position
\* line_number + 1, the lines of the file around it, unchanged and in their
\* order (also when the last line of the file has no newline).
InsertAfterLineSemantics ==
    (engine.pc = "patched" /\ engine.action = "insert_after_line") =>
      LET Text(line) == IF line /= <<>> /\ line[Len(line)] = NL
                          THEN SubSeq(line, 1, Len(line) - 1) ELSE line
          given == splitlines_keepends(engine.before)
          out == splitlines_keepends(engine.ret.content)
          N == Len(given)
          at == engine.line_number
      IN (0 <= at /\ at <= N) =>
           /\ engine.ret.success
           /\ Len(out) = N + 1
           /\ Text(out[at + 1]) = engine.code
           /\ \A i \in 1..N : Text(out[IF i <= at THEN i ELSE i + 1]) = Text(given[i])

\* C29: replace_line with 1 <= line_number <= N gives N lines, the lines
\* other than line_number unchanged and line line_number carrying the code;
\* the line strategy starts the new line with the leading spaces of the line
\* it replaces.
ReplaceLineSemantics ==
    (engine.pc = "patched" /\ engine.action = "replace_line") =>
      LET Text(line) == IF line /= <<>> /\ line[Len(line)] = NL
                          THEN SubSeq(line, 1, Len(line) - 1) ELSE line
          Indent(text) == CHOOSE n \in 0..Len(text) :
                             /\ \A i \in 1..n : text[i] = " "
                             /\ n < Len(text) => text[n + 1] /= " "
          given == splitlines_keepends(engine.before)
          out == splitlines_keepends(engine.ret.content)
          N == Len(given)
          at == engine.line_number
      IN (1 <= at /\ at <= N) =>
           /\ engine.ret.success
           /\ Len(out) = N
           /\ \A i \in 1..N : i /= at => out[i] = given[i]
           /\ IF engine.file_path.suffix \in DomTypes
                THEN Text(out[at]) = engine.code
                ELSE /\ Indent(Text(out[at])) = Indent(Text(given[at]))
                     /\ SubSeq(Text(out[at]), Indent(Text(out[at])) + 1, Len(Text(out[at])))
                          = engine.code

\* C30: re-scan after expansion: in every chunk chunk_file has emitted, each
\* opening marker of a recognized block that lies on a line the semantic
\* expansion added to the chunk (a line at or after the tentative end) has its
\* closing marker, when _find_closing_tag finds one within the search window,
\* inside the chunk too: the chunk does not end between the two.
RescanAfterExpansion ==
    \A k \in 1..Len(chunks) : \A n \in 1..Len(BLOCK_PATTERNS) :
        LET total_lines == Len(chunk_lines)
            start == chunks[k].start_line - 1
            end == chunks[k].end_line
            added == tentative_end(start, chunker.chunk_size, total_lines)..(end - 1)
        IN \A open_line \in added :
              chunk_lines[open_line + 1] \in BLOCK_PATTERNS[n].open =>
                LET close_line == find_closing_tag(chunk_lines, open_line,
                                                   BLOCK_PATTERNS[n].close, total_lines)
                IN close_line /= <<>> => close_line[1] < end

\* C31: chunk_file terminates for every content and every Chunker with
\* chunk_size >= 1 and overlap >= 0, overlap >= chunk_size included: every call
\* reaches its return. The content and the Chunker do not change during a
\* call, so a pass of the loop is determined by start: a pass that stays in
\* the loop and leaves start where it was is repeated for ever, and a call
\* that returns has no such pass.
ChunkFileTerminates ==
    /\ <>(chunk_pc = "returned")
    /\ [][(chunk_pc = "loop" /\ chunk_pc' = "loop") => chunk_start' /= chunk_start]_vars

\* C32: no degenerate segments: the chunks of a call that has returned, and
\* the chunks emitted so far by a Chunker with overlap < chunk_size, satisfy
\* 1 <= start_line <= end_line <= N and line_count = end_line - start_line + 1,
\* their start lines increase strictly, and at most one of them ends at line N.
NoDegenerateSegments ==
    (chunk_pc = "returned" \/ chunker.overlap < chunker.chunk_size) =>
      LET N == Len(chunk_lines)
      IN /\ \A k \in 1..Len(chunks) :
               /\ 1 <= chunks[k].start_line
               /\ chunks[k].start_line <= chunks[k].end_line
               /\ chunks[k].end_line <= N
               /\ chunks[k].line_count = chunks[k].end_line - chunks[k].start_line + 1
         /\ \A k \in 1..(Len(chunks) - 1) : chunks[k].start_line < chunks[k + 1].start_line
         /\ Cardinality({k \in 1..Len(chunks) : chunks[k].end_line = N}) <= 1

\* C32 witness: a call has returned two chunks or more, the last one ends at
\* line N and the start that follows it is still inside the file: what is left
\* is covered by the overlap and no further chunk was emitted.
StoppedInsideOverlap ==
    /\ chunk_pc = "returned"
    /\ Len(chunks) >= 2
    /\ chunks[Len(chunks)].end_line = Len(chunk_lines)
    /\ chunker.overlap >= 1
    /\ chunk_start < Len(chunk_lines)

\* C33: a rollback request for an edit whose history row is available while
\* the backup the row names is missing is answered with an error and changes
\* nothing: the files, the status of every edit and the history rows (so the
\* row stays available for a later rollback) are what they were.
RollbackFailureFrame ==
    [][\A h \in 1..Len(history) :
          (/\ rollback_response' /= NoResponse
           /\ rollback_response'.issue_id = history[h].issue_id
           /\ history[h].rollback_available
           /\ ~Exists(fs, history[h].backup_path))
            => /\ rollback_response'.status_code >= 400
               /\ fs' = fs
               /\ issues' = issues
               /\ history' = history]_vars

\* C33 witness: a rollback request has been answered "Rollback failed" and
\* the row of the edit is still available.
RollbackFailedRowKept ==
    /\ rollback_response.detail = "500: Rollback failed"
    /\ \E h \in HistoryOf(rollback_response.issue_id) : history[h].rollback_available

BackupNonCollision ==
    [][\A h \in 1..Len(history) :
          (Exists(fs, history[h].backup_path) /\ Exists(fs', history[h].backup_path))
            => fs'[history[h].backup_path] = fs[history[h].backup_path]]_vars

\* C39: an edit is applied to its file at most once between rollbacks: no
\* approval pass commits an edit whose status is applied (a rollback puts the
\* status back to pending).
AppliedAtMostOnce ==
    [][\A r \in PairReqs :
          (req[r].pc = "select" /\ req'[r].pc = "txn_applied")
            => issues[req[r].cur].status /= "applied"]_vars

\* C38: an edit whose status is conflict, superseded or rejected is never
\* applied by approve_issues: no approval pass commits to a file for an edit
\* that has one of these statuses.
InactiveEditNeverApplied ==
    [][\A r \in Reqs :
          (req[r].pc = "select" /\ req'[r].pc = "txn_applied")
            => issues[req[r].cur].status \notin {"conflict", "superseded", "rejected"}]_vars

\* C36: gate progress: no reachable state has every permit held by callers
\* that are each suspended in acquire(): whenever all permits are held, some
\* holder is running or has been woken, so that it can go on to its outbound
\* call and release.
GateProgress ==
    ~(/\ semValue = 0
      /\ PermitsHeld = MAX_CONCURRENT_REQUESTS
      /\ \A t \in Tasks : task[t].held > 0 => task[t].pc = "waiting")

\* C37: record_failure(k) returns true exactly when is_tripped(k) is true
\* immediately after the call, whatever calls of record_failure,
\* record_success and reset came before it.
RecordFailureReportsTrip ==
    lastCall[1] = "record_failure" => (lastCall[3] <=> is_tripped(tripped, lastCall[2]))

====
